---- MODULE Spec2Model ----
(***************************************************************************)
(* Model of app.py (SQL AI Explorer): the Connection Builder               *)
(* setup_database_agent, the Connectivity Prober test_connection, the     *)
(* Conversation Handler chat_with_db, and the three Gradio event handlers  *)
(* of main() that call them (on_send, on_test_click, the clear lambda).    *)
(*                                                                         *)
(* Representation.  A Python str is a sequence of tokens; a token is one   *)
(* character ("a", " ") or one string literal of the source taken whole.   *)
(* A Python value that may be None is a record [t |-> type, v |-> value].  *)
(* A Python list is a sequence, a tuple is a TLA+ tuple.  A function that  *)
(* may raise is an operator returning a record with a `raised` field.      *)
(* The external libraries (SQLAlchemy, LangChain, Groq) are an oracle:     *)
(* each external call either succeeds or raises an Exception, as chosen    *)
(* by the environment record passed to the operator.                       *)
(***************************************************************************)
EXTENDS Integers, Sequences, FiniteSets, TLC

VARIABLES
    state,        \* value of gr.State([]) of this session: the list `history`
    chatbot,      \* value shown by the gr.Chatbot component
    test_output,  \* value shown by the gr.Markdown test_output component
    submitted,    \* history variable: the non-empty questions sent, in order
    last          \* history variable: what the last event handler did

vars == <<state, chatbot, test_output, submitted, last>>

\* Longest session transcript explored.
MaxHistory == 2

-----------------------------------------------------------------------------
(* Python values *)

None == [t |-> "NoneType", v |-> <<>>]

Str(s) == [t |-> "str", v |-> s]

Object(cls, args) == [t |-> cls, v |-> args]

\* bool(x): None and "" are falsy, every other value here is truthy.
truthy(x) ==
    CASE x.t = "NoneType" -> FALSE
      [] x.t = "str" -> x.v # <<>>
      [] OTHER -> TRUE

\* all([...]) over a list of str.
all(xs) == \A i \in 1..Len(xs) : truthy(Str(xs[i]))

isspace(c) == c \in {" ", "\t", "\n"}

RECURSIVE lstrip(_)
lstrip(s) ==
    IF s # <<>> /\ isspace(Head(s)) THEN lstrip(Tail(s)) ELSE s

RECURSIVE rstrip(_)
rstrip(s) ==
    IF s # <<>> /\ isspace(s[Len(s)]) THEN rstrip(SubSeq(s, 1, Len(s) - 1)) ELSE s

\* str.strip()
strip(s) == rstrip(lstrip(s))

\* An Exception instance carrying its message, and str(e).
Exception(msg) == [t |-> "Exception", v |-> msg]

str(e) == e.v

-----------------------------------------------------------------------------
(* Outcomes of the external calls *)

Unused == [kind |-> "unused", val |-> <<>>]

Ok == [kind |-> "ok", val |-> <<>>]

Return(text) == [kind |-> "return", val |-> text]

Raise(msg) == [kind |-> "raise", val |-> msg]

\* Texts the agent may answer with, and error texts a library may raise with.
AgentTexts == {<<>>, <<" ", "r">>}

ErrorTexts == {<<"e">>}

ProbeErrorTexts == {<<"f">>}

\* No external call is made.
NoEnv == [engine |-> Unused, llm |-> Unused, agent |-> Unused, run |-> Unused]

\* The external calls of one chat_with_db call, in the order the code makes
\* them; a call that is not reached has no outcome.
BuildEnvs ==
    {[NoEnv EXCEPT !.engine = Raise(e)] : e \in ErrorTexts}
    \cup {[NoEnv EXCEPT !.engine = Ok, !.llm = Raise(e)] : e \in ErrorTexts}
    \cup {[NoEnv EXCEPT !.engine = Ok, !.llm = Ok, !.agent = Raise(e)] : e \in ErrorTexts}
    \cup {[NoEnv EXCEPT !.engine = Ok, !.llm = Ok, !.agent = Ok, !.run = Return(t)] :
             t \in AgentTexts}
    \cup {[NoEnv EXCEPT !.engine = Ok, !.llm = Ok, !.agent = Ok, !.run = Raise(e)] :
             e \in ErrorTexts}

\* The external calls of one test_connection call.
ProbeEnvs ==
    {[engine |-> Raise(e), connect |-> Unused, close |-> Unused] : e \in ProbeErrorTexts}
    \cup {[engine |-> Ok, connect |-> Raise(e), close |-> Unused] : e \in ProbeErrorTexts}
    \cup {[engine |-> Ok, connect |-> Ok, close |-> Raise(e)] : e \in ProbeErrorTexts}
    \cup {[engine |-> Ok, connect |-> Ok, close |-> Ok]}

NoProbeEnv == [engine |-> Unused, connect |-> Unused, close |-> Unused]

-----------------------------------------------------------------------------
(* Inputs typed into the form *)

FieldValues == {<<>>, <<"h">>}

Filled ==
    [mysql_host |-> <<"h">>, mysql_user |-> <<"h">>, mysql_password |-> <<"h">>,
     mysql_db |-> <<"h">>, api_key |-> <<"h">>]

FieldNames == {"mysql_host", "mysql_user", "mysql_password", "mysql_db", "api_key"}

NoCredentials == [f \in FieldNames |-> <<>>]

\* The form filled in, with one field left empty, and left empty.
Credentials ==
    {Filled} \cup {[Filled EXCEPT ![f] = <<>>] : f \in FieldNames} \cup {NoCredentials}

\* test_connection does not look at the fields: filled in, or left empty.
ProbeCredentials == {Filled, NoCredentials}

Queries == {<<>>, <<" ">>, <<"a">>, <<" ", "b">>}

-----------------------------------------------------------------------------
(* String literals of the source *)

CONFIG_MSG == <<"X Database or API key not configured properly.">>

ERROR_PREFIX == <<"X Error: ">>

CONNECT_OK_MSG == <<"Connection successful!">>

CONNECT_FAILED_PREFIX == <<"Connection failed: ">>

\* f"mysql+mysqlconnector://{user}:{password}@{host}/{db}"
db_uri(mysql_host, mysql_user, mysql_password, mysql_db) ==
    <<"mysql+mysqlconnector://">> \o mysql_user \o <<":">> \o mysql_password
        \o <<"@">> \o mysql_host \o <<"/">> \o mysql_db

-----------------------------------------------------------------------------
(* External calls are logged as [fn |-> name, arg |-> argument text] *)

Call(fn, arg) == [fn |-> fn, arg |-> arg]

-----------------------------------------------------------------------------
(* setup_database_agent *)

\* The body of the try block: SQLDatabase(create_engine(db_uri)), ChatGroq(...),
\* create_sql_agent(...), return db, agent.  The first call that raises ends it.
setup_try(mysql_host, mysql_user, mysql_password, mysql_db, api_key, env) ==
    LET uri == db_uri(mysql_host, mysql_user, mysql_password, mysql_db)
        db == Object("SQLDatabase", uri)
        agent == Object("AgentExecutor", uri \o api_key)
        c1 == <<Call("SQLDatabase", uri)>>
        c2 == Append(c1, Call("ChatGroq", api_key))
        c3 == Append(c2, Call("create_sql_agent", uri))
    IN  IF env.engine.kind = "raise"
        THEN [ret |-> <<None, None>>, raised |-> Exception(env.engine.val), calls |-> c1]
        ELSE IF env.llm.kind = "raise"
        THEN [ret |-> <<None, None>>, raised |-> Exception(env.llm.val), calls |-> c2]
        ELSE IF env.agent.kind = "raise"
        THEN [ret |-> <<None, None>>, raised |-> Exception(env.agent.val), calls |-> c3]
        ELSE [ret |-> <<db, agent>>, raised |-> None, calls |-> c3]

\* setup_database_agent without the `if not all([...])` check.
setup_database_agent_unchecked(mysql_host, mysql_user, mysql_password, mysql_db, api_key, env) ==
    LET body == setup_try(mysql_host, mysql_user, mysql_password, mysql_db,
                          api_key, env)
    IN  IF body.raised # None
        THEN [ret |-> <<None, None>>, raised |-> None, calls |-> body.calls]
        ELSE body

setup_database_agent(mysql_host, mysql_user, mysql_password, mysql_db, api_key, env) ==
    IF ~all(<<mysql_host, mysql_user, mysql_password, mysql_db, api_key>>)
    THEN [ret |-> <<None, None>>, raised |-> None, calls |-> <<>>]
    ELSE LET body == setup_try(mysql_host, mysql_user, mysql_password, mysql_db,
                               api_key, env)
         IN  IF body.raised # None
             THEN \* except Exception as e: return None, None
                  [ret |-> <<None, None>>, raised |-> None, calls |-> body.calls]
             ELSE body

-----------------------------------------------------------------------------
(* test_connection *)

\* The body of the try block: create_engine(...), engine.connect() entered as a
\* context manager, return inside the with block, the connection released by
\* __exit__ on the way out (an error there replaces the return).
test_try(mysql_host, mysql_user, mysql_password, mysql_db, penv) ==
    LET uri == db_uri(mysql_host, mysql_user, mysql_password, mysql_db)
        c1 == <<Call("create_engine", uri)>>
        c2 == Append(c1, Call("engine.connect", uri))
        c3 == Append(c2, Call("conn.close", uri))
    IN  IF penv.engine.kind = "raise"
        THEN [ret |-> <<FALSE, <<>>>>, raised |-> Exception(penv.engine.val), calls |-> c1]
        ELSE IF penv.connect.kind = "raise"
        THEN [ret |-> <<FALSE, <<>>>>, raised |-> Exception(penv.connect.val), calls |-> c2]
        ELSE IF penv.close.kind = "raise"
        THEN [ret |-> <<FALSE, <<>>>>, raised |-> Exception(penv.close.val), calls |-> c3]
        ELSE [ret |-> <<TRUE, CONNECT_OK_MSG>>, raised |-> None, calls |-> c3]

\* test_connection reporting success once engine.connect() has returned,
\* whatever releasing the connection does.
test_connection_unreleased(mysql_host, mysql_user, mysql_password, mysql_db, penv) ==
    LET body == test_try(mysql_host, mysql_user, mysql_password, mysql_db,
                         [penv EXCEPT !.close = Ok])
    IN  IF body.raised # None
        THEN [ret |-> <<FALSE, CONNECT_FAILED_PREFIX \o str(body.raised)>>,
              raised |-> None, calls |-> body.calls]
        ELSE body

test_connection(mysql_host, mysql_user, mysql_password, mysql_db, penv) ==
    LET body == test_try(mysql_host, mysql_user, mysql_password, mysql_db, penv)
    IN  IF body.raised # None
        THEN \* except Exception as e: return False, f"Connection failed: {str(e)}"
             [ret |-> <<FALSE, CONNECT_FAILED_PREFIX \o str(body.raised)>>,
              raised |-> None, calls |-> body.calls]
        ELSE body

\* on_test_click: ok, msg = test_connection(...); return msg
on_test_click(host, user, pwd, db, penv) ==
    LET r == test_connection(host, user, pwd, db, penv)
    IN  [ret |-> r.ret[2], probe |-> r.ret, raised |-> r.raised,
         calls |-> <<Call("test_connection", <<>>)>> \o r.calls]

-----------------------------------------------------------------------------
(* chat_with_db *)

\* agent.run(user_query): the agent's answer, or the exception it raises.
\* On None it is the AttributeError of the attribute lookup.
agent_run(agent, user_query, env) ==
    IF agent = None
    THEN [ret |-> None, raised |-> Exception(<<"'NoneType' object has no attribute 'run'">>),
          calls |-> <<>>]
    ELSE IF env.run.kind = "return"
    THEN [ret |-> Str(env.run.val), raised |-> None,
          calls |-> <<Call("agent.run", user_query)>>]
    ELSE [ret |-> None, raised |-> Exception(env.run.val),
          calls |-> <<Call("agent.run", user_query)>>]

\* history[-1] = entry
SetLast(history, entry) == [history EXCEPT ![Len(history)] = entry]

\* chat_with_db without the try/except around agent.run: the error propagates.
chat_with_db_no_except(history, user_query, mysql_host, mysql_user, mysql_password, mysql_db, api_key, env) ==
    LET setup == setup_database_agent(mysql_host, mysql_user, mysql_password,
                                      mysql_db, api_key, env)
        db == setup.ret[1]
        agent == setup.ret[2]
        c0 == <<Call("setup_database_agent", <<>>)>> \o setup.calls
    IN  IF setup.raised # None
        THEN [history |-> history, ret |-> history, raised |-> setup.raised,
              calls |-> c0, trace |-> <<>>, setup |-> setup.ret]
        ELSE IF ~truthy(db) \/ ~truthy(agent)
        THEN LET h1 == Append(history, <<user_query, Str(CONFIG_MSG)>>)
             IN  [history |-> h1, ret |-> h1, raised |-> None,
                  calls |-> c0, trace |-> <<h1>>, setup |-> setup.ret]
        ELSE LET h1 == Append(history, <<user_query, None>>)
                 run == agent_run(agent, user_query, env)
             IN  IF run.raised = None
                 THEN LET h2 == SetLast(h1, <<user_query, run.ret>>)
                      IN  [history |-> h2, ret |-> h2, raised |-> None,
                           calls |-> c0 \o run.calls, trace |-> <<h1, h2>>,
                           setup |-> setup.ret]
                 ELSE [history |-> h1, ret |-> h1, raised |-> run.raised,
                       calls |-> c0 \o run.calls, trace |-> <<h1>>, setup |-> setup.ret]

\* chat_with_db whose except branch returns history without writing history[-1].
chat_with_db_except_pass(history, user_query, mysql_host, mysql_user, mysql_password, mysql_db, api_key, env) ==
    LET setup == setup_database_agent(mysql_host, mysql_user, mysql_password,
                                      mysql_db, api_key, env)
        db == setup.ret[1]
        agent == setup.ret[2]
        c0 == <<Call("setup_database_agent", <<>>)>> \o setup.calls
    IN  IF setup.raised # None
        THEN [history |-> history, ret |-> history, raised |-> setup.raised,
              calls |-> c0, trace |-> <<>>, setup |-> setup.ret]
        ELSE IF ~truthy(db) \/ ~truthy(agent)
        THEN LET h1 == Append(history, <<user_query, Str(CONFIG_MSG)>>)
             IN  [history |-> h1, ret |-> h1, raised |-> None,
                  calls |-> c0, trace |-> <<h1>>, setup |-> setup.ret]
        ELSE LET h1 == Append(history, <<user_query, None>>)
                 run == agent_run(agent, user_query, env)
             IN  IF run.raised = None
                 THEN LET h2 == SetLast(h1, <<user_query, run.ret>>)
                      IN  [history |-> h2, ret |-> h2, raised |-> None,
                           calls |-> c0 \o run.calls, trace |-> <<h1, h2>>,
                           setup |-> setup.ret]
                 ELSE [history |-> h1, ret |-> h1, raised |-> None,
                       calls |-> c0 \o run.calls, trace |-> <<h1>>, setup |-> setup.ret]

\* chat_with_db with history.insert(0, ...) and history[0] for append and history[-1].
chat_with_db_prepend(history, user_query, mysql_host, mysql_user, mysql_password, mysql_db, api_key, env) ==
    LET setup == setup_database_agent(mysql_host, mysql_user, mysql_password,
                                      mysql_db, api_key, env)
        db == setup.ret[1]
        agent == setup.ret[2]
        c0 == <<Call("setup_database_agent", <<>>)>> \o setup.calls
    IN  IF setup.raised # None
        THEN [history |-> history, ret |-> history, raised |-> setup.raised,
              calls |-> c0, trace |-> <<>>, setup |-> setup.ret]
        ELSE IF ~truthy(db) \/ ~truthy(agent)
        THEN LET h1 == <<<<user_query, Str(CONFIG_MSG)>>>> \o history
             IN  [history |-> h1, ret |-> h1, raised |-> None,
                  calls |-> c0, trace |-> <<h1>>, setup |-> setup.ret]
        ELSE LET h1 == <<<<user_query, None>>>> \o history
                 run == agent_run(agent, user_query, env)
                 h2 == IF run.raised = None
                       THEN [h1 EXCEPT ![1] = <<user_query, run.ret>>]
                       ELSE [h1 EXCEPT ![1] = <<user_query,
                                                Str(ERROR_PREFIX \o str(run.raised))>>]
             IN  [history |-> h2, ret |-> h2, raised |-> None,
                  calls |-> c0 \o run.calls, trace |-> <<h1, h2>>, setup |-> setup.ret]

\* chat_with_db without the `if not db or not agent` branch.
chat_with_db_no_setup_check(history, user_query, mysql_host, mysql_user, mysql_password, mysql_db, api_key, env) ==
    LET setup == setup_database_agent(mysql_host, mysql_user, mysql_password,
                                      mysql_db, api_key, env)
        db == setup.ret[1]
        agent == setup.ret[2]
        c0 == <<Call("setup_database_agent", <<>>)>> \o setup.calls
    IN  IF setup.raised # None
        THEN [history |-> history, ret |-> history, raised |-> setup.raised,
              calls |-> c0, trace |-> <<>>, setup |-> setup.ret]
        ELSE IF FALSE
        THEN LET h1 == Append(history, <<user_query, Str(CONFIG_MSG)>>)
             IN  [history |-> h1, ret |-> h1, raised |-> None,
                  calls |-> c0, trace |-> <<h1>>, setup |-> setup.ret]
        ELSE LET h1 == Append(history, <<user_query, None>>)
                 run == agent_run(agent, user_query, env)
                 h2 == IF run.raised = None
                       THEN SetLast(h1, <<user_query, run.ret>>)
                       ELSE SetLast(h1, <<user_query,
                                          Str(ERROR_PREFIX \o str(run.raised))>>)
             IN  [history |-> h2, ret |-> h2, raised |-> None,
                  calls |-> c0 \o run.calls, trace |-> <<h1, h2>>, setup |-> setup.ret]

\* chat_with_db storing user_query.strip() and response.strip().
chat_with_db_stripped(history, user_query, mysql_host, mysql_user, mysql_password, mysql_db, api_key, env) ==
    LET setup == setup_database_agent(mysql_host, mysql_user, mysql_password,
                                      mysql_db, api_key, env)
        db == setup.ret[1]
        agent == setup.ret[2]
        c0 == <<Call("setup_database_agent", <<>>)>> \o setup.calls
    IN  IF setup.raised # None
        THEN [history |-> history, ret |-> history, raised |-> setup.raised,
              calls |-> c0, trace |-> <<>>, setup |-> setup.ret]
        ELSE IF ~truthy(db) \/ ~truthy(agent)
        THEN LET h1 == Append(history, <<strip(user_query), Str(CONFIG_MSG)>>)
             IN  [history |-> h1, ret |-> h1, raised |-> None,
                  calls |-> c0, trace |-> <<h1>>, setup |-> setup.ret]
        ELSE LET h1 == Append(history, <<strip(user_query), None>>)
                 run == agent_run(agent, user_query, env)
                 h2 == IF run.raised = None
                       THEN SetLast(h1, <<strip(user_query), Str(strip(run.ret.v))>>)
                       ELSE SetLast(h1, <<strip(user_query),
                                          Str(ERROR_PREFIX \o str(run.raised))>>)
             IN  [history |-> h2, ret |-> h2, raised |-> None,
                  calls |-> c0 \o run.calls, trace |-> <<h1, h2>>, setup |-> setup.ret]

\* chat_with_db that calls agent.run a second time when the first call raises.
chat_with_db_retry(history, user_query, mysql_host, mysql_user, mysql_password, mysql_db, api_key, env) ==
    LET setup == setup_database_agent(mysql_host, mysql_user, mysql_password,
                                      mysql_db, api_key, env)
        db == setup.ret[1]
        agent == setup.ret[2]
        c0 == <<Call("setup_database_agent", <<>>)>> \o setup.calls
    IN  IF setup.raised # None
        THEN [history |-> history, ret |-> history, raised |-> setup.raised,
              calls |-> c0, trace |-> <<>>, setup |-> setup.ret]
        ELSE IF ~truthy(db) \/ ~truthy(agent)
        THEN LET h1 == Append(history, <<user_query, Str(CONFIG_MSG)>>)
             IN  [history |-> h1, ret |-> h1, raised |-> None,
                  calls |-> c0, trace |-> <<h1>>, setup |-> setup.ret]
        ELSE LET h1 == Append(history, <<user_query, None>>)
                 run == agent_run(agent, user_query, env)
                 h2 == IF run.raised = None
                       THEN SetLast(h1, <<user_query, run.ret>>)
                       ELSE SetLast(h1, <<user_query,
                                          Str(ERROR_PREFIX \o str(run.raised))>>)
             IN  [history |-> h2, ret |-> h2, raised |-> None,
                  calls |-> c0 \o run.calls
                              \o (IF run.raised = None THEN <<>> ELSE run.calls),
                  trace |-> <<h1, h2>>, setup |-> setup.ret]

\* The list `history` is mutated in place: `history` is the list when the call
\* ends, `trace` its content after each mutation, `ret` the returned value.
chat_with_db(history, user_query, mysql_host, mysql_user, mysql_password, mysql_db, api_key, env) ==
    LET setup == setup_database_agent(mysql_host, mysql_user, mysql_password,
                                      mysql_db, api_key, env)
        db == setup.ret[1]
        agent == setup.ret[2]
        c0 == <<Call("setup_database_agent", <<>>)>> \o setup.calls
    IN  IF setup.raised # None
        THEN [history |-> history, ret |-> history, raised |-> setup.raised,
              calls |-> c0, trace |-> <<>>, setup |-> setup.ret]
        ELSE IF ~truthy(db) \/ ~truthy(agent)
        THEN LET h1 == Append(history, <<user_query, Str(CONFIG_MSG)>>)
             IN  [history |-> h1, ret |-> h1, raised |-> None,
                  calls |-> c0, trace |-> <<h1>>, setup |-> setup.ret]
        ELSE LET h1 == Append(history, <<user_query, None>>)
                 run == agent_run(agent, user_query, env)
                 h2 == IF run.raised = None
                       THEN SetLast(h1, <<user_query, run.ret>>)
                       ELSE \* except Exception as e
                            SetLast(h1, <<user_query,
                                          Str(ERROR_PREFIX \o str(run.raised))>>)
             IN  [history |-> h2, ret |-> h2, raised |-> None,
                  calls |-> c0 \o run.calls, trace |-> <<h1, h2>>, setup |-> setup.ret]

-----------------------------------------------------------------------------
(* main(): the event handlers *)

\* on_send testing `if not user_query` instead of `if not user_query.strip()`.
on_send_unstripped(user_query, history, host, user, pwd, db, key, env) ==
    IF ~truthy(Str(user_query))
    THEN [history |-> history, ret |-> history, raised |-> None,
          calls |-> <<>>, trace |-> <<>>, setup |-> <<None, None>>]
    ELSE LET r == chat_with_db(history, user_query, host, user, pwd, db, key, env)
         IN  [r EXCEPT !.calls = <<Call("chat_with_db", user_query)>> \o r.calls]

on_send(user_query, history, host, user, pwd, db, key, env) ==
    IF ~truthy(Str(strip(user_query)))
    THEN [history |-> history, ret |-> history, raised |-> None,
          calls |-> <<>>, trace |-> <<>>, setup |-> <<None, None>>]
    ELSE LET r == chat_with_db(history, user_query, host, user, pwd, db, key, env)
         IN  [r EXCEPT !.calls = <<Call("chat_with_db", user_query)>> \o r.calls]

\* What the libraries can answer to the calls a submission leads to: nothing
\* when the question is blank or a field is missing, since none is called.
EnvsFor(user_query, c) ==
    IF strip(user_query) = <<>>
       \/ ~all(<<c.mysql_host, c.mysql_user, c.mysql_password, c.mysql_db, c.api_key>>)
    THEN {NoEnv}
    ELSE BuildEnvs

Idle ==
    [op |-> "init", query |-> <<>>, before |-> <<>>, ret |-> <<>>, raised |-> None,
     creds |-> NoCredentials, env |-> NoEnv, penv |-> NoProbeEnv,
     setup |-> <<None, None>>, calls |-> <<>>, trace |-> <<>>,
     probe |-> <<FALSE, <<>>>>]

Init ==
    /\ state = <<>>
    /\ chatbot = <<>>
    /\ test_output = <<>>
    /\ submitted = <<>>
    /\ last = Idle

\* send_btn.click and user_input.submit both run on_send with inputs
\* [user_input, state, the five fields] and output chatbot.  The list held by
\* state is the object passed as `history`, so its in-place mutations stay.
Send ==
    \E user_query \in Queries, c \in Credentials :
        \E env \in EnvsFor(user_query, c) :
            /\ strip(user_query) # <<>> => Len(state) < MaxHistory
            /\ LET r == on_send(user_query, state, c.mysql_host, c.mysql_user,
                                c.mysql_password, c.mysql_db, c.api_key, env)
               IN  /\ state' = r.history
                   /\ chatbot' = IF r.raised = None THEN r.ret ELSE chatbot
                   /\ submitted' = IF strip(user_query) # <<>>
                                   THEN Append(submitted, user_query)
                                   ELSE submitted
                   /\ last' = [Idle EXCEPT !.op = "send", !.query = user_query,
                                  !.before = state, !.ret = r.ret,
                                  !.raised = r.raised,
                                  !.creds = IF r.calls = <<>> THEN NoCredentials ELSE c,
                                  !.env = env, !.setup = r.setup,
                                  !.calls = r.calls, !.trace = r.trace]
            /\ UNCHANGED test_output

\* clear_btn.click(lambda: [], None, chatbot)
Clear ==
    /\ chatbot' = <<>>
    /\ last' = [Idle EXCEPT !.op = "clear", !.before = state]
    /\ UNCHANGED <<state, test_output, submitted>>

\* test_btn.click(on_test_click, [host, user, password, db], test_output)
Test ==
    \E c \in ProbeCredentials, penv \in ProbeEnvs :
        LET r == on_test_click(c.mysql_host, c.mysql_user, c.mysql_password,
                               c.mysql_db, penv)
        IN  /\ test_output' = IF r.raised = None THEN r.ret ELSE test_output
            /\ last' = [Idle EXCEPT !.op = "test", !.before = state,
                           !.raised = r.raised, !.penv = penv,
                           !.calls = r.calls, !.probe = r.probe]
            /\ UNCHANGED <<state, chatbot, submitted>>

Next == Send \/ Clear \/ Test

Spec == Init /\ [][Next]_vars

-----------------------------------------------------------------------------
(* Vocabulary of the properties *)

\* How many times fn was called.
Count(calls, fn) == Cardinality({i \in 1..Len(calls) : calls[i].fn = fn})

\* The last event ran on_send and on_send called chat_with_db.
HandlerCalled == last.op = "send" /\ Count(last.calls, "chat_with_db") > 0

\* The Connection Builder's result in the last chat_with_db call is a full pair.
SetupSucceeded == truthy(last.setup[1]) /\ truthy(last.setup[2])

\* A field of the credentials of the last chat_with_db call is empty.
FieldMissing == \E f \in FieldNames : last.creds[f] = <<>>

\* Creating the database handle, the model client or the agent failed.
ConstructionFailed ==
    \/ last.env.engine.kind = "raise"
    \/ last.env.llm.kind = "raise"
    \/ last.env.agent.kind = "raise"

IsInfix(sub, text) ==
    \E i \in 0..(Len(text) - Len(sub)) : SubSeq(text, i + 1, i + Len(sub)) = sub

Resolved(history) ==
    \A i \in 1..Len(history) : history[i][2] # None /\ history[i][2].t = "str"

\* The entry the last chat_with_db call returned in last place.
NewEntry == last.ret[Len(last.ret)]

-----------------------------------------------------------------------------
(* The properties *)

\* C1: every chat_with_db call returns normally (no exception reaches on_send)
\* with a transcript exactly one entry longer than the one it was given,
\* whether the builder gave an empty pair or not and whether the agent call
\* returned or raised.
C1_ReturnsOneMoreEntry ==
    HandlerCalled =>
        /\ last.raised = None
        /\ Len(last.ret) = Len(last.before) + 1

C1_Witness ==
    /\ HandlerCalled
    /\ last.env.run.kind = "raise"
    /\ Len(last.before) = 1
    /\ Len(last.ret) = 2

\* C2: the clear action empties the session transcript: whatever was
\* submitted before, the non-empty submission that follows a clear reads and
\* returns exactly one entry, the new question, and none of the old ones.
C2_ClearEmptiesTranscript ==
    [][(last.op = "clear" /\ last'.op = "send" /\ strip(last'.query) # <<>>)
         => /\ last'.before = <<>>
            /\ Len(last'.ret) = 1
            /\ last'.ret[1][1] = last'.query]_vars

\* C3: no transcript returned by chat_with_db holds a pending (None) answer:
\* when the builder succeeded the entry is appended pending and overwritten
\* exactly once in the same call, and when it failed the entry is appended
\* already resolved.
C3_NoPendingAnswerReturned ==
    /\ Resolved(state)
    /\ HandlerCalled =>
        /\ Resolved(last.ret)
        /\ IF SetupSucceeded
           THEN /\ Len(last.trace) = 2
                /\ Len(last.trace[1]) = Len(last.before) + 1
                /\ last.trace[1][Len(last.before) + 1][2] = None
                /\ last.trace[2] = last.ret
           ELSE /\ Len(last.trace) = 1
                /\ last.trace[1] = last.ret

C3_Witness ==
    /\ HandlerCalled
    /\ SetupSucceeded
    /\ last.env.run = Raise(<<"e">>)
    /\ last.trace[1][1][2] = None
    /\ last.ret[1][2] = Str(ERROR_PREFIX \o <<"e">>)

\* C4: the transcript is append-only and ordered by submission: it holds
\* exactly the non-empty questions submitted so far, in order, and each
\* chat_with_db call keeps every earlier entry unchanged and in place and puts
\* the new entry last.
C4_AppendOnlyInSubmissionOrder ==
    /\ Len(state) = Len(submitted)
    /\ \A i \in 1..Len(state) : state[i][1] = submitted[i]
    /\ HandlerCalled =>
        /\ Len(last.ret) = Len(last.before) + 1
        /\ SubSeq(last.ret, 1, Len(last.before)) = last.before
        /\ NewEntry[1] = last.query
        /\ state = last.ret

C4_Witness ==
    /\ HandlerCalled
    /\ Len(state) = 2
    /\ submitted = <<<<" ", "b">>, <<"a">>>>
    /\ state[1][2] # state[2][2]

\* C5: when the builder yields an empty result (a missing field, or a failed
\* construction) chat_with_db appends exactly (question, CONFIG_MSG), never a
\* pending entry, never calls the agent, and returns; the text is the same
\* for every cause.
C5_SetupFailureEntry ==
    (HandlerCalled /\ (~SetupSucceeded \/ FieldMissing \/ ConstructionFailed)) =>
        /\ last.raised = None
        /\ last.ret = Append(last.before, <<last.query, Str(CONFIG_MSG)>>)
        /\ last.trace = <<last.ret>>
        /\ Count(last.calls, "agent.run") = 0

C5_Witness ==
    /\ HandlerCalled
    /\ last.env.llm.kind = "raise"
    /\ ~SetupSucceeded
    /\ last.ret = <<<<last.query, Str(CONFIG_MSG)>>>>

\* C6: setup_database_agent never raises and returns either a pair of two
\* objects or (None, None): (None, None) when a field is empty or a
\* construction fails, a pair of two objects when the five fields are
\* non-empty and the constructions succeed.
C6_BuilderAllOrNothing ==
    HandlerCalled =>
        /\ last.raised = None
        /\ Count(last.calls, "setup_database_agent") = 1
        /\ SetupSucceeded \/ last.setup = <<None, None>>
        /\ (FieldMissing \/ ConstructionFailed) => last.setup = <<None, None>>
        /\ (~FieldMissing /\ ~ConstructionFailed) => SetupSucceeded

C6_Witness ==
    /\ HandlerCalled
    /\ last.creds = [Filled EXCEPT !.api_key = <<>>]
    /\ last.setup = <<None, None>>

\* C7: a submission whose question is empty after trimming whitespace is a
\* no-op: nothing is called and the returned transcript is the transcript
\* before the submission.
C7_BlankSubmissionNoOp ==
    (last.op = "send" /\ strip(last.query) = <<>>) =>
        /\ last.calls = <<>>
        /\ last.raised = None
        /\ last.ret = last.before
        /\ state = last.before

C7_Witness ==
    /\ last.op = "send"
    /\ last.query = <<" ">>
    /\ Len(state) = 1
    /\ last.ret = state

\* C8: when the builder succeeds the agent is asked the raw question; if it
\* returns text t the new entry is (question, t) with t unmodified, if it
\* raises e the new entry is (question, message embedding the text of e); the
\* question stored is the submitted question unchanged.
C8_AnswerFromAgent ==
    (HandlerCalled /\ SetupSucceeded) =>
        /\ NewEntry[1] = last.query
        /\ \E i \in 1..Len(last.calls) : last.calls[i] = Call("agent.run", last.query)
        /\ last.env.run.kind = "return" => NewEntry[2] = Str(last.env.run.val)
        /\ last.env.run.kind = "raise" =>
            /\ NewEntry[2] = Str(ERROR_PREFIX \o last.env.run.val)
            /\ IsInfix(last.env.run.val, NewEntry[2].v)

C8_Witness ==
    /\ HandlerCalled
    /\ SetupSucceeded
    /\ last.query = <<" ", "b">>
    /\ NewEntry = <<<<" ", "b">>, Str(<<" ", "r">>)>>

\* C9: test_connection returns (True, success message) exactly when the
\* engine is created and a connection is opened and released without error,
\* and otherwise (False, message containing the error text); it never raises,
\* calls neither the builder nor the agent, and leaves the transcript alone.
C9_ProbeResult ==
    last.op = "test" =>
        LET opened == /\ last.penv.engine.kind = "ok"
                      /\ last.penv.connect.kind = "ok"
                      /\ last.penv.close.kind = "ok"
            error == IF last.penv.engine.kind = "raise" THEN last.penv.engine.val
                     ELSE IF last.penv.connect.kind = "raise" THEN last.penv.connect.val
                     ELSE last.penv.close.val
        IN  /\ last.raised = None
            /\ last.probe[1] = opened
            /\ opened => last.probe[2] = CONNECT_OK_MSG
            /\ ~opened => IsInfix(error, last.probe[2])
            /\ test_output = last.probe[2]
            /\ Count(last.calls, "setup_database_agent") = 0
            /\ Count(last.calls, "chat_with_db") = 0
            /\ Count(last.calls, "agent.run") = 0
            /\ state = last.before

C9_Witness ==
    /\ last.op = "test"
    /\ last.penv.close.kind = "raise"
    /\ last.probe = <<FALSE, CONNECT_FAILED_PREFIX \o <<"f">>>>
    /\ Len(state) = 1

\* C10: each chat_with_db call is one pass: the builder is called exactly
\* once and builds its handle anew, the agent is called exactly once when the
\* builder succeeded and not at all when it failed, also after an agent
\* failure and also in the turn after a failed turn.
C10_SinglePassNoRetry ==
    HandlerCalled =>
        /\ Count(last.calls, "setup_database_agent") = 1
        /\ Count(last.calls, "SQLDatabase") = (IF FieldMissing THEN 0 ELSE 1)
        /\ Count(last.calls, "agent.run") = (IF SetupSucceeded THEN 1 ELSE 0)

C10_Witness ==
    /\ HandlerCalled
    /\ Len(last.before) = 1
    /\ last.before[1][2] = Str(CONFIG_MSG)
    /\ last.env.run.kind = "raise"
    /\ Count(last.calls, "agent.run") = 1

====
